---- MODULE Spec2Model ----
(***************************************************************************)
(* A model of bot.py: one run of main() after another over the state file  *)
(* state.json.  A run loads the posted ids, collects candidates feed by    *)
(* feed, selects, routes, regroups and caps them, renders and shrinks the   *)
(* message, sends it and writes the ids back.                               *)
(***************************************************************************)
EXTENDS Integers, Sequences, FiniteSets, TLC

\* ------------------------------------------------------------------------
\* Configuration and sizes
\* ------------------------------------------------------------------------

\* MAX_ITEMS and PER_SOURCE_LIMIT are read from the environment (defaults 25
\* and 5); the model runs the program with MAX_ITEMS=3 PER_SOURCE_LIMIT=2.
MAX_ITEMS == 3

PER_SOURCE_LIMIT == 2

\* The number of ids that list(posted)[-2000:] keeps, scaled down.
PostedCap == 3

\* The longest feed the model's parser returns.
MaxEntries == 3

\* feed.entries[:50]
EntriesSlice == 50

\* The byte budget of fits_telegram_html.
BudgetBytes == 3800

\* range(300) of the shrinking loop.
ShrinkRounds == 300

\* UTF-8 length of the header of build_message (the date has a fixed width).
HeaderBytes == 59

\* UTF-8 length of the last-resort marker.
MarkerBytes == 3

\* UTF-8 length of "<b>" "</b>" "\n" and the rule line of a section.
SectionFrameBytes == 32

\* The cleaned result of load_feeds_config(): name, limit and feeds of each
\* category in the order of feeds.json.
categories ==
  << [name |-> "General", limit |-> 3, feeds |-> <<"f1", "f2">>],
     [name |-> "Critical Vulnerabilities", limit |-> 2, feeds |-> <<"f3">>] >>

known_categories == {categories[k].name : k \in 1..Len(categories)}

\* UTF-8 length of an escaped category name.
name_bytes(name) ==
  CASE name = "General" -> 7
    [] name = "Critical Vulnerabilities" -> 24
    [] OTHER -> 0

\* The routing rules; a title is modelled by the set kw of the rules one of
\* whose keywords it contains.
ROUTING_RULES ==
  << [target |-> "Critical Vulnerabilities"],
     [target |-> "Breaking & Incidents"],
     [target |-> "Threat Intelligence"] >>

\* ------------------------------------------------------------------------
\* Feed entries
\* ------------------------------------------------------------------------

\* The entries a parsed feed can hold; a feed is any sequence of at most
\* MaxEntries of them (none when it fails to parse).  published_parsed and updated_parsed
\* are <<>> when absent and <<t>> when present; bytes is the UTF-8 length of
\* the line build_message renders for the entry.
Pool ==
  { [id |-> "a", guid |-> "", link |-> "u1", title |-> "t1", kw |-> {},
     published_parsed |-> <<5>>, updated_parsed |-> <<>>, bytes |-> 1500],
    [id |-> "", guid |-> "a", link |-> "u2", title |-> "t2", kw |-> {1},
     published_parsed |-> <<>>, updated_parsed |-> <<>>, bytes |-> 2300],
    [id |-> "b", guid |-> "", link |-> "u3", title |-> "t3", kw |-> {1},
     published_parsed |-> <<>>, updated_parsed |-> <<5>>, bytes |-> 1500],
    [id |-> "b", guid |-> "", link |-> "u4", title |-> "t4", kw |-> {2},
     published_parsed |-> <<9>>, updated_parsed |-> <<5>>, bytes |-> 1500],
    [id |-> "", guid |-> "", link |-> "u5", title |-> "t5", kw |-> {},
     published_parsed |-> <<>>, updated_parsed |-> <<>>, bytes |-> 4000],
    [id |-> "c", guid |-> "", link |-> "u6", title |-> "t6", kw |-> {},
     published_parsed |-> <<5>>, updated_parsed |-> <<>>, bytes |-> 1500],
    [id |-> "c", guid |-> "", link |-> "u6", title |-> " ", kw |-> {},
     published_parsed |-> <<5>>, updated_parsed |-> <<>>, bytes |-> 1500] }

\* ------------------------------------------------------------------------
\* Helpers
\* ------------------------------------------------------------------------

Min(a, b) == IF a <= b THEN a ELSE b

Max(a, b) == IF a >= b THEN a ELSE b

Range(s) == {s[i] : i \in 1..Len(s)}

\* s[:n]
Take(s, n) == SubSeq(s, 1, Min(n, Len(s)))

\* s[-n:] for n > 0
LastN(s, n) == SubSeq(s, Max(1, Len(s) - n + 1), Len(s))

\* str.strip() on the model's strings, of which " " is the only blank one.
Strip(s) == IF s = " " THEN "" ELSE s

\* The model's ids are all shorter than the 500 characters of the slice.
entry_id(e) ==
  IF e.id # "" THEN e.id
  ELSE IF e.guid # "" THEN e.guid
  ELSE e.link \o "|" \o e.title

entry_ts(e) ==
  IF e.published_parsed # <<>> THEN e.published_parsed[1]
  ELSE IF e.updated_parsed # <<>> THEN e.updated_parsed[1]
  ELSE 0

route_category(kw, current_category, known) ==
  LET hits == {r \in 1..Len(ROUTING_RULES) :
                 ROUTING_RULES[r].target \in known /\ r \in kw}
  IN IF hits = {} THEN current_category
     ELSE ROUTING_RULES[CHOOSE r \in hits : \A q \in hits : r <= q].target

\* All orders in which a set can be listed.
Perms(S) ==
  {s \in [1..Cardinality(S) -> S] :
     \A i, j \in 1..Cardinality(S) : i # j => s[i] # s[j]}

\* ------------------------------------------------------------------------
\* State
\* ------------------------------------------------------------------------

VARIABLES
  pc,               \* where main() is
  file,             \* state.json: [kind, ids], kind missing | ok | unparseable
  fileAtStart,      \* state.json when the run started
  posted,           \* the set posted
  loaded,           \* posted as load_state returned it
  ci, fi,           \* the category and the feed the collecting loop is at
  candidates,
  routed_items,
  all_selected_ids,
  taken,            \* taken of the feed being scanned
  ei,               \* the number of its entries the loop has gone through
  skipped_posted,   \* an entry was skipped because its id was posted
  nfound,           \* the number of candidates the run has built
  grouped_items,
  kept,
  message,          \* [sections, marker]
  sent,             \* whether Telegram accepted the message
  state,            \* state["posted_ids"] as it is given to save_state
  saves             \* the number of save_state calls of the run

vars == <<pc, file, fileAtStart, posted, loaded, ci, fi, candidates,
          routed_items, all_selected_ids, taken, ei, skipped_posted, nfound, grouped_items, kept, message,
          sent, state, saves>>

NoMessage == [sections |-> <<>>, marker |-> FALSE]

MissingFile == [kind |-> "missing", ids |-> <<>>]

UnparseableFile == [kind |-> "unparseable", ids |-> <<>>]

RunInit ==
  /\ posted = {}
  /\ loaded = {}
  /\ ci = 1
  /\ fi = 1
  /\ candidates = <<>>
  /\ routed_items = <<>>
  /\ all_selected_ids = {}
  /\ taken = 0
  /\ ei = 0
  /\ skipped_posted = FALSE
  /\ nfound = 0
  /\ grouped_items = <<>>
  /\ kept = <<>>
  /\ message = NoMessage
  /\ sent = FALSE
  /\ state = <<>>
  /\ saves = 0

Init ==
  /\ pc = "start"
  /\ file \in {MissingFile, UnparseableFile}
  /\ fileAtStart = file
  /\ RunInit

\* ------------------------------------------------------------------------
\* Collecting candidates
\* ------------------------------------------------------------------------

alreadyNotPosted(eid, posted_ids, selected_ids) == eid \in selected_ids

\* The test that skips an entry: its id was posted or selected before.
already(eid, posted_ids, selected_ids) ==
  eid \in posted_ids \/ eid \in selected_ids

\* Lines 294-312: the body of the loop over the entries, for one entry e.
\* The result holds the candidates and whether e was taken.
scan_entry(e, cands, cat_name, n) ==
  LET eid == entry_id(e)
      title == Strip(e.title)
      link == Strip(e.link)
  IN IF already(eid, posted, all_selected_ids)
       THEN [cands |-> cands, taken |-> FALSE]
     ELSE IF title = "" \/ link = ""
       THEN [cands |-> cands, taken |-> FALSE]
     ELSE [cands |-> Append(cands,
                       [id |-> eid, title |-> title, link |-> link,
                        ts |-> entry_ts(e), source_category |-> cat_name,
                        category |-> "", kw |-> e.kw, bytes |-> e.bytes,
                        ord |-> n + 1]),
           taken |-> TRUE]

RECURSIVE InsertBeforeEqual(_, _)
InsertBeforeEqual(x, s) ==
  IF s = <<>> THEN <<x>>
  ELSE IF Head(s).ts > x.ts THEN <<Head(s)>> \o InsertBeforeEqual(x, Tail(s))
  ELSE <<x>> \o s

\* list.sort(key=ts, reverse=True): descending and stable.
RECURSIVE InsertByTs(_, _)
InsertByTs(x, s) ==
  IF s = <<>> THEN <<x>>
  ELSE IF Head(s).ts >= x.ts THEN <<Head(s)>> \o InsertByTs(x, Tail(s))
  ELSE <<x>> \o s

RECURSIVE SortByTsDesc(_)
SortByTsDesc(s) ==
  IF s = <<>> THEN <<>>
  ELSE InsertByTs(s[Len(s)], SortByTsDesc(SubSeq(s, 1, Len(s) - 1)))

\* Lines 317-325: sort, cut to the category limit, route.
select_and_route(cands, cat) ==
  LET selected == Take(SortByTsDesc(cands), cat.limit)
  IN [i \in 1..Len(selected) |->
        [selected[i] EXCEPT
           !.category = route_category(selected[i].kw,
                                       selected[i].source_category,
                                       known_categories)]]

Ids(items) == {items[i].id : i \in 1..Len(items)}

\* ------------------------------------------------------------------------
\* Actions
\* ------------------------------------------------------------------------

HourSet == {8, 9, 21, 22}

\* Lines 261-270: the credentials, the quiet hours, the configuration.
Start ==
  /\ pc = "start"
  /\ \E creds \in BOOLEAN, hour \in HourSet :
       pc' = IF ~creds THEN "config_raised"
             ELSE IF hour >= 22 \/ hour < 9 THEN "done"
             ELSE IF categories = <<>> THEN "done"
             ELSE "load"
  /\ UNCHANGED <<file, fileAtStart, posted, loaded, ci, fi, candidates,
                 routed_items, all_selected_ids, taken, ei, skipped_posted, nfound, grouped_items,
                 kept, message, sent, state, saves>>

\* Lines 276-277 with load_state: a missing file is an empty history,
\* json.load raises on a file that does not parse.
LoadState ==
  /\ pc = "load"
  /\ IF file.kind = "unparseable"
       THEN /\ pc' = "load_raised"
            /\ UNCHANGED <<posted, loaded>>
       ELSE /\ pc' = "collect"
            /\ posted' = Range(file.ids)
            /\ loaded' = Range(file.ids)
  /\ UNCHANGED <<file, fileAtStart, ci, fi, candidates, routed_items,
                 all_selected_ids, taken, ei, skipped_posted, nfound, grouped_items, kept, message,
                 sent, state, saves>>

\* Lines 290-312: the loop takes the next entry of the parsed feed, when
\* the feed has one more within entries[:50] and the source limit is not
\* reached.
ScanEntry ==
  /\ pc = "collect"
  /\ ei < MaxEntries
  /\ ei < EntriesSlice
  /\ taken < PER_SOURCE_LIMIT
  /\ \E e \in Pool :
       LET r == scan_entry(e, candidates, categories[ci].name, nfound)
       IN /\ candidates' = r.cands
          /\ taken' = IF r.taken THEN taken + 1 ELSE taken
          /\ nfound' = IF r.taken THEN nfound + 1 ELSE nfound
          /\ skipped_posted' = (skipped_posted \/ entry_id(e) \in posted)
  /\ ei' = ei + 1
  /\ UNCHANGED <<pc, file, fileAtStart, posted, loaded, ci, fi, routed_items,
                 all_selected_ids, grouped_items, kept, message, sent, state,
                 saves>>

\* Lines 286-325: the loop over the entries of a feed ends (the feed has no
\* more entries, or the break of line 292); after the last feed of the
\* category its candidates are sorted, cut and routed.
EndFeed ==
  /\ pc = "collect"
  /\ LET cat == categories[ci]
         routed == select_and_route(candidates, cat)
     IN IF fi < Len(cat.feeds)
          THEN /\ fi' = fi + 1
               /\ UNCHANGED <<candidates, ci, routed_items, all_selected_ids,
                              pc>>
          ELSE /\ fi' = 1
               /\ candidates' = <<>>
               /\ ci' = ci + 1
               /\ routed_items' = routed_items \o routed
               /\ all_selected_ids' = all_selected_ids \cup Ids(routed)
               /\ pc' = IF ci = Len(categories) THEN "select" ELSE "collect"
  /\ taken' = 0
  /\ ei' = 0
  /\ UNCHANGED <<file, fileAtStart, posted, loaded, skipped_posted, nfound,
                 grouped_items, kept, message, sent, state, saves>>

\* ------------------------------------------------------------------------
\* Regrouping and the caps
\* ------------------------------------------------------------------------

\* Lines 333-335: the bucket an item goes to.
target_of(it) ==
  LET t == IF it.category # "" THEN it.category ELSE it.source_category
  IN IF t \in known_categories THEN t ELSE it.source_category

\* Lines 331-340: the items routed to a category, sorted by time.
bucket(name) ==
  SortByTsDesc(SelectSeq(routed_items, LAMBDA it : target_of(it) = name))

RECURSIVE take_allowed_no_limit(_, _, _, _)
take_allowed_no_limit(items, limit, total, allowed) ==
  IF items = <<>> \/ total >= MAX_ITEMS THEN allowed
  ELSE take_allowed_no_limit(Tail(items), limit, total + 1,
                             Append(allowed, Head(items)))

\* Lines 356-364: the items of one bucket that are let through.
RECURSIVE take_allowed(_, _, _, _)
take_allowed(items, limit, total, allowed) ==
  IF items = <<>> \/ total >= MAX_ITEMS \/ Len(allowed) >= limit THEN allowed
  ELSE take_allowed(Tail(items), limit, total + 1,
                    Append(allowed, Head(items)))

\* Lines 347-369: the walk over the categories in configured order.
RECURSIVE enforce(_, _, _, _)
enforce(k, total, grouped, kept_items) ==
  IF k > Len(categories) THEN [grouped |-> grouped, kept |-> kept_items]
  ELSE
    LET c == categories[k]
        items == bucket(c.name)
        allowed == take_allowed(items, c.limit, total, <<>>)
        g == Append(grouped,
                    [name |-> c.name, limit |-> c.limit, items |-> allowed])
    IN IF items = <<>> THEN enforce(k + 1, total, g, kept_items)
       ELSE IF total + Len(allowed) >= MAX_ITEMS
         THEN [grouped |-> g, kept |-> kept_items \o allowed]
       ELSE enforce(k + 1, total + Len(allowed), g, kept_items \o allowed)

\* ------------------------------------------------------------------------
\* Rendering and fitting
\* ------------------------------------------------------------------------

\* A message is its sections (the name and the items of a non-empty bucket);
\* marker says that it is the last-resort header with the marker.
build_message(grouped) ==
  LET nonempty == SelectSeq(grouped, LAMBDA gi : gi.items # <<>>)
  IN [sections |-> [i \in 1..Len(nonempty) |->
                      [name |-> nonempty[i].name,
                       items |-> Take(nonempty[i].items, nonempty[i].limit)]],
      marker |-> FALSE]

LastResort == [sections |-> <<>>, marker |-> TRUE]

RECURSIVE SumBytes(_)
SumBytes(items) ==
  IF items = <<>> THEN 0 ELSE 1 + Head(items).bytes + SumBytes(Tail(items))

RECURSIVE SectionsBytes(_)
SectionsBytes(sections) ==
  IF sections = <<>> THEN 0
  ELSE SectionFrameBytes + name_bytes(Head(sections).name)
       + SumBytes(Head(sections).items)
       + (IF Len(sections) > 1 THEN 2 ELSE 0)
       + SectionsBytes(Tail(sections))

\* len(msg.encode("utf-8"))
msg_bytes(msg) ==
  IF msg.marker THEN HeaderBytes + MarkerBytes
  ELSE HeaderBytes + SectionsBytes(msg.sections)

fits_over_budget(msg) == msg_bytes(msg) <= BudgetBytes + 296

fits_telegram_html(msg) == msg_bytes(msg) <= BudgetBytes

\* Lines 380-384: pop the last item of the last non-empty bucket.
pop_last(grouped) ==
  LET nonempty == {k \in 1..Len(grouped) : grouped[k].items # <<>>}
      last == CHOOSE k \in nonempty : \A q \in nonempty : q <= k
  IN [grouped EXCEPT
        ![last].items = SubSeq(@, 1, Len(@) - 1)]

\* Lines 378-390: the shrinking loop.
RECURSIVE shrink(_, _, _)
shrink(grouped, msg, rounds) ==
  IF rounds = 0 THEN [grouped |-> grouped, message |-> msg]
  ELSE IF \A k \in 1..Len(grouped) : grouped[k].items = <<>>
    THEN [grouped |-> grouped, message |-> msg]
  ELSE
    LET g == pop_last(grouped)
        m == build_message(g)
    IN IF fits_telegram_html(m) THEN [grouped |-> g, message |-> m]
       ELSE shrink(g, m, rounds - 1)

\* Lines 375-395.
fit(grouped) ==
  LET m == build_message(grouped)
  IN IF fits_telegram_html(m) THEN [grouped |-> grouped, message |-> m]
     ELSE LET r == shrink(grouped, m, ShrinkRounds)
          IN IF fits_telegram_html(r.message) THEN r
             ELSE [grouped |-> r.grouped, message |-> LastResort]

\* Lines 327-372.
SelectItems ==
  /\ pc = "select"
  /\ IF routed_items = <<>>
       THEN /\ pc' = "done"
            /\ UNCHANGED <<grouped_items, kept>>
       ELSE LET r == enforce(1, 0, <<>>, <<>>)
            IN /\ grouped_items' = r.grouped
               /\ kept' = r.kept
               /\ pc' = IF r.kept = <<>> THEN "done" ELSE "render"
  /\ UNCHANGED <<file, fileAtStart, posted, loaded, ci, fi, candidates,
                 routed_items, all_selected_ids, taken, ei, skipped_posted, nfound, message, sent,
                 state, saves>>

\* Lines 375-395.
FitMessage ==
  /\ pc = "render"
  /\ LET r == fit(grouped_items)
     IN /\ grouped_items' = r.grouped
        /\ message' = r.message
  /\ pc' = "send"
  /\ UNCHANGED <<file, fileAtStart, posted, loaded, ci, fi, candidates,
                 routed_items, all_selected_ids, taken, ei, skipped_posted, nfound, kept, sent,
                 state, saves>>

\* ------------------------------------------------------------------------
\* Sending and committing
\* ------------------------------------------------------------------------

PostResults == {"ok", "not_ok", "exception"}

send_message_unchecked(r, r2) == IF r = "exception" THEN "raise" ELSE "return"

\* send_message: r and r2 are what the two posts do.  The second post is
\* made only when the first one answers with an error status.
send_message(r, r2) ==
  IF r = "exception" THEN "raise"
  ELSE IF r = "ok" THEN "return"
  ELSE IF r2 = "ok" THEN "return"
  ELSE "raise"

\* Line 397.
SendMessage ==
  /\ pc = "send"
  /\ \E r, r2 \in PostResults :
       /\ sent' = (r = "ok" \/ (r = "not_ok" /\ r2 = "ok"))
       /\ pc' = IF send_message(r, r2) = "return" THEN "commit"
                ELSE "send_raised"
  /\ UNCHANGED <<file, fileAtStart, posted, loaded, ci, fi, candidates,
                 routed_items, all_selected_ids, taken, ei, skipped_posted, nfound, grouped_items,
                 kept, message, state, saves>>

\* Lines 399-403 up to the open() of save_state, which empties the file.
\* list(posted) lists a set of strings in the order of their hashes, which
\* is any order.
Commit ==
  /\ pc = "commit"
  /\ posted' = posted \cup Ids(kept)
  /\ \E order \in Perms(posted') : state' = LastN(order, PostedCap)
  /\ file' = UnparseableFile
  /\ saves' = saves + 1
  /\ pc' = "saving"
  /\ UNCHANGED <<fileAtStart, loaded, ci, fi, candidates, routed_items,
                 all_selected_ids, taken, ei, skipped_posted, nfound, grouped_items, kept, message,
                 sent>>

\* json.dump of save_state has written the whole state.
SaveWritten ==
  /\ pc = "saving"
  /\ file' = [kind |-> "ok", ids |-> state]
  /\ pc' = "done"
  /\ UNCHANGED <<fileAtStart, posted, loaded, ci, fi, candidates, routed_items,
                 all_selected_ids, taken, ei, skipped_posted, nfound, grouped_items, kept, message,
                 sent, state, saves>>

Running == {"load", "collect", "select", "render", "send", "commit", "saving"}

Ended == {"done", "config_raised", "load_raised", "send_raised", "crashed"}

\* The process dies (a kill, a full disk while writing).
Crash ==
  /\ pc \in Running
  /\ pc' = "crashed"
  /\ UNCHANGED <<file, fileAtStart, posted, loaded, ci, fi, candidates,
                 routed_items, all_selected_ids, taken, ei, skipped_posted, nfound, grouped_items,
                 kept, message, sent, state, saves>>

\* The scheduler starts the next run.
NextRun ==
  /\ pc \in Ended
  /\ pc' = "start"
  /\ fileAtStart' = file
  /\ posted' = {}
  /\ loaded' = {}
  /\ ci' = 1
  /\ fi' = 1
  /\ candidates' = <<>>
  /\ routed_items' = <<>>
  /\ all_selected_ids' = {}
  /\ taken' = 0
  /\ ei' = 0
  /\ skipped_posted' = FALSE
  /\ nfound' = 0
  /\ grouped_items' = <<>>
  /\ kept' = <<>>
  /\ message' = NoMessage
  /\ sent' = FALSE
  /\ state' = <<>>
  /\ saves' = 0
  /\ UNCHANGED file

Next ==
  \/ Start
  \/ LoadState
  \/ ScanEntry
  \/ EndFeed
  \/ SelectItems
  \/ FitMessage
  \/ SendMessage
  \/ Commit
  \/ SaveWritten
  \/ Crash
  \/ NextRun

Spec == Init /\ [][Next]_vars

\* ------------------------------------------------------------------------
\* Properties
\* ------------------------------------------------------------------------

RECURSIVE SectionIds(_)
SectionIds(sections) ==
  IF sections = <<>> THEN {}
  ELSE Ids(Head(sections).items) \cup SectionIds(Tail(sections))

MsgIds(msg) == SectionIds(msg.sections)

RECURSIVE CountItems(_)
CountItems(sections) ==
  IF sections = <<>> THEN 0
  ELSE Len(Head(sections).items) + CountItems(Tail(sections))

RECURSIVE Flatten(_)
Flatten(grouped) ==
  IF grouped = <<>> THEN <<>>
  ELSE Head(grouped).items \o Flatten(Tail(grouped))

Committed == pc = "done" /\ saves = 1

\* C1: after a run that delivered a message and committed, the ids newly in
\* the persisted posted_ids are exactly the ids of the items in the delivered
\* message.  (Stated for commits that keep every id, so that an id missing
\* from the file is not one that the cut to PostedCap dropped.)
C1_CommittedIdsAreDeliveredIds ==
  (Committed /\ Cardinality(posted) <= PostedCap)
    => Range(file.ids) \ Range(fileAtStart.ids) = MsgIds(message)

\* C2: no id occurs twice in the final selection or in the message.
C2_NoIdTwice ==
  /\ \A i, j \in 1..Len(kept) : i # j => kept[i].id # kept[j].id
  /\ CountItems(message.sections) = Cardinality(MsgIds(message))

\* C3: no item whose id was in the loaded posted_ids is in the final
\* selection, neither in kept nor in grouped_items.
C3_PostedNeverSelected ==
  /\ Ids(kept) \cap loaded = {}
  /\ Ids(Flatten(grouped_items)) \cap loaded = {}
  /\ MsgIds(message) \cap loaded = {}

\* C3 witness: a feed yielded an id that was posted before, and the run
\* selected something.
C3_Witness == pc = "send" /\ skipped_posted /\ kept # <<>>

\* C4: the message handed to send_message is at most BudgetBytes long.
C4_MessageFitsBudget ==
  pc \in {"send", "commit", "send_raised"} => msg_bytes(message) <= BudgetBytes

\* C4 witness: a message that fits only because items were removed.
C4_Witness ==
  /\ pc = "send"
  /\ CountItems(message.sections) > 0
  /\ CountItems(message.sections) < Len(kept)

KeptIn(name) == SelectSeq(kept, LAMBDA it : target_of(it) = name)

IndexOf(name) == CHOOSE k \in 1..Len(categories) : categories[k].name = name

KeptUpTo(k) ==
  Cardinality({i \in 1..Len(kept) : IndexOf(target_of(kept[i])) <= k})

\* C5: each bucket of the selection holds at most its category's limit, the
\* selection holds at most MAX_ITEMS items, and no category after the one
\* where the total reached MAX_ITEMS contributes.
C5_CapsHold ==
  /\ Len(kept) <= MAX_ITEMS
  /\ \A k \in 1..Len(categories) :
       /\ Len(KeptIn(categories[k].name)) <= categories[k].limit
       /\ KeptUpTo(k) >= MAX_ITEMS =>
            \A j \in (k + 1)..Len(categories) : KeptIn(categories[j].name) = <<>>
  /\ \A k \in 1..Len(grouped_items) :
       /\ grouped_items[k].name = categories[k].name
       /\ Len(grouped_items[k].items) <= categories[k].limit
       /\ \A i \in 1..Len(grouped_items[k].items) :
            target_of(grouped_items[k].items[i]) = categories[k].name
  /\ pc = "render" => Flatten(grouped_items) = kept

\* C5 witness: a bucket received more items than its limit and was cut.
C5_Witness ==
  /\ pc = "render"
  /\ \E k \in 1..Len(categories) :
       /\ Len(bucket(categories[k].name)) > categories[k].limit
       /\ Len(KeptIn(categories[k].name)) = categories[k].limit
       /\ \E i \in 1..Len(kept) :
            /\ target_of(kept[i]) = categories[k].name
            /\ kept[i].source_category # categories[k].name

\* C6: when both sends fail the run ends with the error and neither posted
\* nor the file has changed; save_state is called at most once a run and
\* only after the message was accepted.
C6_NoCommitWithoutDelivery ==
  /\ pc = "send_raised" =>
       /\ ~sent
       /\ saves = 0
       /\ file = fileAtStart
       /\ posted = loaded
  /\ pc \in {"commit", "saving"} => sent
  /\ saves <= 1
  /\ saves = 1 => sent
  /\ file # fileAtStart => sent

\* C6 witness: a run with a selection whose delivery failed.
C6_Witness == pc = "send_raised" /\ ~sent /\ kept # <<>>

\* C7: loading the persisted state never raises.
C7_LoadNeverRaises == pc # "load_raised"

RECURSIVE AppendNew(_, _)
AppendNew(ids, items) ==
  IF items = <<>> THEN ids
  ELSE AppendNew(IF Head(items).id \in Range(ids) THEN ids
                 ELSE Append(ids, Head(items).id),
                 Tail(items))

\* C8: a commit writes at most PostedCap ids, the ids it drops are the
\* oldest ones (the front of the previous list with the ids of this run
\* appended), and the ids of this run are retained.
C8_OldestEvicted ==
  saves = 1 =>
    /\ Len(state) <= PostedCap
    /\ Range(state) = Range(LastN(AppendNew(fileAtStart.ids, kept), PostedCap))
    /\ Ids(kept) \subseteq Range(state)

\* C9: in each section of the message the timestamps do not increase, an
\* item without timestamp comes after every item with a positive one, and
\* items of equal timestamp are in the order in which they were found.
C9_SectionsOrdered ==
  \A k \in 1..Len(message.sections) :
    LET items == message.sections[k].items
    IN \A i, j \in 1..Len(items) :
         i < j =>
           /\ items[i].ts >= items[j].ts
           /\ items[j].ts > 0 => items[i].ts # 0
           /\ items[i].ts = items[j].ts => items[i].ord < items[j].ord

\* C9 witness: a message with a section holding two items of equal
\* timestamp.
C9_Witness ==
  /\ pc = "send"
  /\ \E k \in 1..Len(message.sections) :
       LET items == message.sections[k].items
       IN \E i, j \in 1..Len(items) : i < j /\ items[i].ts = items[j].ts

\* C10: after a crash the file is the complete prior state or the complete
\* new state.
C10_CrashLeavesWholeFile ==
  pc = "crashed" =>
    \/ file = fileAtStart
    \/ file = [kind |-> "ok", ids |-> state] /\ saves = 1

====
